---- MODULE Spec2Model ----
(***************************************************************************)
(* Model of huff-deployer: the deploy pipeline of src/src/HuffDeployer.ts  *)
(* (with the interface-retention flag and clean) and of src/src/helpers.ts *)
(* (the same pipeline without clean), and of the string functions they     *)
(* use.  Strings are sequences of one-character strings, so that indexOf,  *)
(* slice, replace and split are computed character by character as        *)
(* JavaScript computes them.                                               *)
(***************************************************************************)
EXTENDS Integers, Sequences, FiniteSets, TLC

\* ------------------------------------------------------------------------
\* JavaScript string primitives (0-based indices, -1 for "not found")
\* ------------------------------------------------------------------------

\* pat occurs in s at 0-based index i
OccursAt(s, pat, i) ==
    /\ i >= 0
    /\ i + Len(pat) <= Len(s)
    /\ SubSeq(s, i + 1, i + Len(pat)) = pat

\* String.prototype.indexOf
IndexOf(s, pat) ==
    LET hits == {i \in 0..Len(s) : OccursAt(s, pat, i)}
    IN  IF hits = {} THEN -1 ELSE CHOOSE i \in hits : \A j \in hits : i <= j

\* String.prototype.lastIndexOf
LastIndexOf(s, pat) ==
    LET hits == {i \in 0..Len(s) : OccursAt(s, pat, i)}
    IN  IF hits = {} THEN -1 ELSE CHOOSE i \in hits : \A j \in hits : i >= j

\* String.prototype.includes
Includes(s, pat) == IndexOf(s, pat) # -1

\* An index argument of slice: negative counts from the end, then clamped.
ClampIndex(s, k) ==
    IF k < 0 THEN (IF Len(s) + k < 0 THEN 0 ELSE Len(s) + k)
    ELSE (IF k > Len(s) THEN Len(s) ELSE k)

\* String.prototype.slice(from, to)
Slice(s, from, to) == SubSeq(s, ClampIndex(s, from) + 1, ClampIndex(s, to))

\* String.prototype.slice(from)
SliceFrom(s, from) == Slice(s, from, Len(s))

\* String.prototype.replace with a string pattern: the first occurrence only.
ReplaceFirst(s, pat, rep) ==
    LET i == IndexOf(s, pat)
    IN  IF i = -1 THEN s
        ELSE Slice(s, 0, i) \o rep \o SliceFrom(s, i + Len(pat))

UpperLetters ==
    << "A", "B", "C", "D", "E", "F", "G", "H", "I", "J", "K", "L", "M",
       "N", "O", "P", "Q", "R", "S", "T", "U", "V", "W", "X", "Y", "Z" >>

LowerLetters ==
    << "a", "b", "c", "d", "e", "f", "g", "h", "i", "j", "k", "l", "m",
       "n", "o", "p", "q", "r", "s", "t", "u", "v", "w", "x", "y", "z" >>

\* String.prototype.toLowerCase
ToLowerCase(s) ==
    [i \in 1..Len(s) |->
        IF \E k \in 1..Len(UpperLetters) : UpperLetters[k] = s[i]
        THEN LowerLetters[CHOOSE k \in 1..Len(UpperLetters) : UpperLetters[k] = s[i]]
        ELSE s[i]]

\* String.prototype.split("\n")
RECURSIVE SplitLines(_)
SplitLines(s) ==
    LET i == IndexOf(s, <<"\n">>)
    IN  IF i = -1 THEN <<s>>
        ELSE <<Slice(s, 0, i)>> \o SplitLines(SliceFrom(s, i + 1))

\* ------------------------------------------------------------------------
\* Words of the program text
\* ------------------------------------------------------------------------

slash == <<"/">>
huff == <<"h", "u", "f", "f">>
sol == <<"s", "o", "l">>
dotHuff == <<".">> \o huff
dotSol == <<".">> \o sol
functionKw == <<"f", "u", "n", "c", "t", "i", "o", "n">>
semicolon == <<";">>
legacyMarker == <<"0", ".", "0", ".">>
contractsDir == <<"c", "o", "n", "t", "r", "a", "c", "t", "s">>

\* ------------------------------------------------------------------------
\* The string functions of the pipeline
\* ------------------------------------------------------------------------

\* deploy: the name a discovered path is compared under
contractName(filePath) ==
    Slice(filePath, LastIndexOf(filePath, slash) + 1, IndexOf(filePath, dotHuff))

\* deploy: the case-insensitive name match
NameMatches(targetContract, filePath) ==
    ToLowerCase(targetContract) = ToLowerCase(contractName(filePath))

\* replace(/\/([^\/]*)$/, "/I$1"): an "I" after the last slash, if any
PrefixLastSegment(s) ==
    LET i == LastIndexOf(s, slash)
    IN  IF i = -1 THEN s
        ELSE Slice(s, 0, i) \o slash \o <<"I">> \o SliceFrom(s, i + 1)

\* A variant of interfaceFilePath that forgets the "I" prefix.
interfaceFilePathUnprefixed(filePath) == ReplaceFirst(filePath, dotHuff, dotSol)

\* getContractAbi: the path it reads
interfaceFilePath(filePath) ==
    PrefixLastSegment(ReplaceFirst(filePath, dotHuff, dotSol))

\* clean: the path it unlinks
cleanFilePath(filePath) ==
    LET replaced == ReplaceFirst(filePath, huff, sol)
        lastSlashIndex == LastIndexOf(replaced, slash)
    IN  Slice(replaced, 0, lastSlashIndex + 1) \o <<"I">>
            \o SliceFrom(replaced, lastSlashIndex + 1)

\* A variant of AbiFragment that keeps the terminator.
AbiFragmentWithTerminator(line) ==
    Slice(line, IndexOf(line, functionKw), IndexOf(line, semicolon) + 1)

\* getContractAbi: one fragment of a line that contains the keyword
AbiFragment(line) ==
    Slice(line, IndexOf(line, functionKw), IndexOf(line, semicolon))

\* getContractAbi: the fragments of the lines that contain the keyword
RECURSIVE AbiOfLines(_)
AbiOfLines(lines) ==
    IF lines = <<>> THEN <<>>
    ELSE (IF Includes(Head(lines), functionKw)
          THEN <<AbiFragment(Head(lines))>>
          ELSE <<>>) \o AbiOfLines(Tail(lines))

\* getContractAbi on the text of the interface file
getContractAbi(contractInterface) == AbiOfLines(SplitLines(contractInterface))

\* verifyHuffCompiler: the version output names the legacy compiler
IsLegacy(stdout) == Includes(stdout, legacyMarker)

\* ------------------------------------------------------------------------
\* Bounds and the inputs the model draws from
\* ------------------------------------------------------------------------

\* the largest number of .huff files on disk
MaxFiles == 2

\* a path contracts/<dirs><stem>.huff
HuffPath(dirs, stem) == contractsDir \o slash \o dirs \o stem \o dotHuff

\* The .huff files that may be on disk: a plain one, one differing in case
\* only, one of another name, one in a directory whose name contains "huff",
\* one in a directory whose name contains ".huff", one named *.huff.huff.
SourceCatalogue ==
    { HuffPath(<<>>, <<"A">>),
      HuffPath(<<>>, <<"a">>),
      HuffPath(<<>>, <<"B">>),
      HuffPath(huff \o <<"s">> \o slash, <<"A">>),
      HuffPath(<<"x">> \o dotHuff \o slash, <<"A">>),
      HuffPath(<<>>, <<"A">> \o dotHuff) }

\* The contract names a caller may ask for.
TargetNames == { <<"A">>, <<"a">>, <<"B">>, <<"C">> }

\* What huffc --version may print.
VersionOutputs ==
    { <<"h", "u", "f", "f", "c", " ", "0", ".", "3", ".", "2">>,
      <<"0", ".", "0", ".", "1", "7">> }

\* The two deploy functions and the retention flag: helpers.ts has no flag
\* and no clean.
Modes ==
    { [impl |-> "helpers", generateInterface |-> TRUE],
      [impl |-> "HuffDeployer", generateInterface |-> TRUE],
      [impl |-> "HuffDeployer", generateInterface |-> FALSE] }

Calls == {1, 2}

\* the text of a .huff source file (never read by the pipeline itself)
HuffSourceText == <<"#">>

\* the text huffc --interface writes
InterfaceText ==
    <<"i", "n", "t", "e", "r", "f", "a", "c", "e", " ", "I", " ", "{", "\n", " ">>
        \o functionKw \o <<" ", "f", "(", ")", ";", "\n", "}">>

\* Where huffc --interface writes: the source's directory, the file name
\* prefixed with "I", the .huff extension replaced by .sol.
InterfaceFileOf(filePath) ==
    LET lastSlashIndex == LastIndexOf(filePath, slash)
    IN  Slice(filePath, 0, lastSlashIndex + 1) \o <<"I">>
            \o Slice(filePath, lastSlashIndex + 1, Len(filePath) - Len(dotHuff))
            \o dotSol

\* the directories that hold the files of a file system
DirectoriesOf(files) ==
    UNION { { SubSeq(p, 1, i - 1) : i \in {j \in 1..Len(p) : p[j] = "/"} } :
            p \in files }

\* the segments of a path between its slashes
RECURSIVE Segments(_)
Segments(path) ==
    LET i == IndexOf(path, slash)
    IN  IF i = -1 THEN <<path>>
        ELSE <<Slice(path, 0, i)>> \o Segments(SliceFrom(path, i + 1))

\* glob.sync("contracts/**/*.huff") on the files of the file system: the
\* entries under contracts/, files and directories alike, whose name ends in
\* .huff; neither ** nor * matches a name that starts with a dot.
GlobMatches(files) ==
    { p \in files \cup DirectoriesOf(files) :
        LET segs == Segments(p)
        IN  /\ Len(segs) >= 2
            /\ segs[1] = contractsDir
            /\ \A k \in 2..Len(segs) : segs[k] # <<>> /\ segs[k][1] # "."
            /\ OccursAt(p, dotHuff, Len(p) - Len(dotHuff)) }

\* the orders in which a set of paths may be listed
Orderings(S) ==
    { f \in [1..Cardinality(S) -> S] :
        \A i, j \in 1..Cardinality(S) : f[i] = f[j] => i = j }

\* ------------------------------------------------------------------------
\* State
\* ------------------------------------------------------------------------

VARIABLES
    fs,        \* the file system: path -> text
    pc,        \* per call: where the deploy call stands
    params,    \* per call: targetContract, the deploy function, the flag
    huffFiles, \* per call: the result of returnHuffFiles
    idx,       \* per call: the position of the for loop (1-based, 0 before)
    abi,       \* per call: the last scraped ABI
    contract,  \* per call: <<>> while undefined, else <<the handle>>
    error,     \* per call: <<>>, or <<the error the promise rejected with>>
    trace,     \* per call: the external steps started, with their status
    written,   \* per call: the running huffc --interface has written its file
    interfaceText, \* the text huffc --interface writes for these sources
    log,       \* console.error: the paths clean could not delete
    uncaught,  \* exceptions thrown out of a child_process callback
    crashed    \* the process was ended by an uncaught exception

vars ==
    << fs, pc, params, huffFiles, idx, abi, contract, error, trace, written,
       interfaceText, log, uncaught, crashed, interfaceText >>

Ev(step, file, status) == [step |-> step, file |-> file, status |-> status]

\* the running step of a trace ends with the given status
Finish(tr, status) == [tr EXCEPT ![Len(tr)].status = status]

\* the file the loop of call c is at
CurrentFile(c) == huffFiles[c][idx[c]]

\* the first position >= from of a file that matches the target, 0 if none
NextMatch(files, targetContract, from) ==
    LET hits == {i \in from..Len(files) : NameMatches(targetContract, files[i])}
    IN  IF hits = {} THEN 0 ELSE CHOOSE i \in hits : \A j \in hits : i <= j

TypeOK ==
    /\ DOMAIN pc = Calls
    /\ \A c \in Calls :
        pc[c] \in { "absent", "ready", "signers", "verify", "hung", "bytecode", "interface",
                    "factory", "deploying", "returned", "rejected" }
    /\ crashed \in BOOLEAN

\* ------------------------------------------------------------------------
\* Errors
\* ------------------------------------------------------------------------

\* the error a failed subprocess, factory construction or deploy call reports
CauseText == <<"f", "a", "i", "l", "e", "d">>

\* HardhatPluginError("HuffDeployer", `Contract ${targetContract} not found.`)
NotFoundError(targetContract) ==
    [ kind |-> "ContractNotFound",
      message |-> <<"C", "o", "n", "t", "r", "a", "c", "t", " ">>
                      \o targetContract \o <<" ", "n", "o", "t", " ", "f", "o", "u", "n", "d", ".">> ]

\* new Error(`Error deploying ${targetContract}: ${e}`)
DeployError(targetContract) ==
    [ kind |-> "DeploymentFailed",
      message |-> <<"E", "r", "r", "o", "r", " ", "d", "e", "p", "l", "o", "y", "i", "n", "g", " ">>
                      \o targetContract \o <<":", " ">> \o CauseText ]

\* reject(err) of a huffc run: the subprocess error, passed through
CompilerError == [kind |-> "CompilerInvocationFailed", message |-> CauseText]

\* getContractFactory rejected: passed through
FactoryError == [kind |-> "FactoryFailed", message |-> CauseText]

\* readFileSync threw: passed through
ReadError(path) == [kind |-> "ReadFailed", message |-> path]

\* verifyHuffCompiler: huffUrl
huffUrl ==
    <<"h", "t", "t", "p", "s", ":", "/", "/", "g", "i", "t", "h", "u", "b", ".", "c", "o", "m", "/", "h">>
        \o <<"u", "f", "f", "-", "l", "a", "n", "g", "u", "a", "g", "e", "/", "h", "u", "f", "f", "-", "r", "s">>

\* getSigners rejected: passed through
SignersError == [kind |-> "SignersFailed", message |-> CauseText]

\* the HardhatPluginErrors verifyHuffCompiler throws inside the exec callback
CompilerNotFoundError ==
    [ kind |-> "CompilerUnavailable",
      message |-> <<"H", "u", "f", "f", " ", "c", "o", "m", "p", "i", "l", "e", "r", " ", "n", "o", "t", " ", "f", "o", "u", "n", "d", ".", " ">>
                      \o <<"P", "l", "e", "a", "s", "e", " ", "i", "n", "s", "t", "a", "l", "l", " ", "i", "t", " ", "f", "r", "o", "m", " ">>
                      \o huffUrl ]

LegacyCompilerError ==
    [ kind |-> "CompilerUnavailable",
      message |-> <<"T", "S", " ", "H", "u", "f", "f", " ", "n", "o", "t", " ", "s", "u", "p", "p", "o", "r", "t", "e", "d", ".", " ">>
                      \o <<"P", "l", "e", "a", "s", "e", " ", "i", "n", "s", "t", "a", "l", "l", " ", "t", "h", "e", " ", "R", "u", "s", "t", " ", "c", "o", "m", "p", "i", "l", "e", "r", " ", "f", "r", "o", "m", " ">>
                      \o huffUrl ]

\* ------------------------------------------------------------------------
\* The file system
\* ------------------------------------------------------------------------

WriteFile(f, path, text) ==
    [q \in (DOMAIN f) \cup {path} |-> IF q = path THEN text ELSE f[q]]

Unlink(f, path) == [q \in (DOMAIN f) \ {path} |-> f[q]]

\* ------------------------------------------------------------------------
\* The deploy call, one action per callback
\* ------------------------------------------------------------------------

\* A variant of StartBytecode that starts the interface generation without
\* awaiting the bytecode compile.
StartBytecodeAndInterface(tr, filePath) ==
    Append(Append(tr, Ev("bytecode", filePath, "running")),
           Ev("interface", filePath, "running"))

\* getContractBytecode is called: one huffc --bytecode starts
StartBytecode(tr, filePath) == Append(tr, Ev("bytecode", filePath, "running"))

\* The for loop of deploy from position `from`, with `con` the contract so
\* far: up to the next await (the bytecode compile of the next matching
\* file), or past the loop to the throw or the return.
Continue(c, tr, files, from, con) ==
    LET i == NextMatch(files, params[c].targetContract, from)
    IN  /\ huffFiles' = [huffFiles EXCEPT ![c] = files]
        /\ contract' = [contract EXCEPT ![c] = con]
        /\ IF i # 0
           THEN /\ idx' = [idx EXCEPT ![c] = i]
                /\ trace' = [trace EXCEPT ![c] = StartBytecode(tr, files[i])]
                /\ pc' = [pc EXCEPT ![c] = "bytecode"]
                /\ error' = error
           ELSE /\ idx' = [idx EXCEPT ![c] = Len(files) + 1]
                /\ trace' = [trace EXCEPT ![c] = tr]
                /\ IF con = <<>>
                   THEN /\ pc' = [pc EXCEPT ![c] = "rejected"]
                        /\ error' = [error EXCEPT
                               ![c] = <<NotFoundError(params[c].targetContract)>>]
                   ELSE /\ pc' = [pc EXCEPT ![c] = "returned"]
                        /\ error' = error

\* A variant of Reject that catches the error inside the loop and goes on
\* with the next discovered file.
RejectSwallowed(c, tr, err) ==
    Continue(c, tr, huffFiles[c], idx[c] + 1, contract[c])

\* An awaited promise rejected (or a synchronous call threw) inside deploy:
\* the promise deploy returned rejects with that error.
Reject(c, tr, err) ==
    /\ pc' = [pc EXCEPT ![c] = "rejected"]
    /\ error' = [error EXCEPT ![c] = <<err>>]
    /\ trace' = [trace EXCEPT ![c] = tr]
    /\ UNCHANGED << huffFiles, idx, contract >>

\* A variant of AfterDeploy that returns the first contract deployed.
AfterDeployReturns(c, tr, con) ==
    /\ pc' = [pc EXCEPT ![c] = "returned"]
    /\ contract' = [contract EXCEPT ![c] = con]
    /\ trace' = [trace EXCEPT ![c] = tr]
    /\ UNCHANGED << huffFiles, idx, error >>

\* After factory.deploy() resolved and the optional clean: the loop goes on
\* with the next discovered file.
AfterDeploy(c, tr, con) == Continue(c, tr, huffFiles[c], idx[c] + 1, con)

\* HuffDeployer.deploy is called without a signer: it awaits getSigners
\* before it calls the deploy of helpers.ts.
ClassDeploy(c) ==
    /\ ~crashed
    /\ pc[c] = "ready"
    /\ params[c].impl = "helpers"
    /\ pc' = [pc EXCEPT ![c] = "signers"]
    /\ UNCHANGED << fs, params, huffFiles, idx, abi, contract, error, trace,
                    written, log, uncaught, crashed, interfaceText >>

\* getSigners settles: on failure the promise of HuffDeployer.deploy rejects
\* before any step; on success deploy is called and verifyHuffCompiler
\* starts huffc --version.
SignersCallback(c) ==
    /\ ~crashed
    /\ pc[c] = "signers"
    /\ \E ok \in BOOLEAN :
        IF ok
        THEN /\ pc' = [pc EXCEPT ![c] = "verify"]
             /\ trace' = [trace EXCEPT ![c] = Append(@, Ev("version", <<>>, "running"))]
             /\ UNCHANGED << huffFiles, idx, contract, error >>
        ELSE Reject(c, trace[c], SignersError)
    /\ UNCHANGED << fs, params, abi, written, log, uncaught, crashed, interfaceText >>

\* deploy is called (directly, or by HuffDeployer.deploy with a signer):
\* verifyHuffCompiler starts huffc --version
Call(c) ==
    /\ ~crashed
    /\ pc[c] = "ready"
    /\ pc' = [pc EXCEPT ![c] = "verify"]
    /\ trace' = [trace EXCEPT ![c] = Append(@, Ev("version", <<>>, "running"))]
    /\ UNCHANGED << fs, params, huffFiles, idx, abi, contract, error, written,
                    log, uncaught, crashed, interfaceText >>

\* The exec callback of huffc --version finds an error or the legacy marker:
\* it throws inside the callback, where no promise catches it.  The promise
\* of verifyHuffCompiler is never settled.
VersionCallbackThrows(c) ==
    /\ ~crashed
    /\ pc[c] = "verify"
    /\ \E err \in BOOLEAN, stdout \in VersionOutputs :
        /\ err \/ IsLegacy(stdout)
        /\ uncaught' = uncaught \cup
              {<<c, IF err THEN CompilerNotFoundError ELSE LegacyCompilerError>>}
    /\ pc' = [pc EXCEPT ![c] = "hung"]
    /\ trace' = [trace EXCEPT ![c] = Finish(@, "failed")]
    /\ UNCHANGED << fs, params, huffFiles, idx, abi, contract, error, written,
                    log, crashed, interfaceText >>

\* The exec callback of huffc --version resolves; deploy goes on with
\* returnHuffFiles and the loop up to its first await.
VersionCallbackResolves(c) ==
    /\ ~crashed
    /\ pc[c] = "verify"
    /\ \E stdout \in VersionOutputs : ~IsLegacy(stdout)
    /\ \E files \in Orderings(GlobMatches(DOMAIN fs)) :
        Continue(c, Append(Finish(trace[c], "ok"), Ev("glob", <<>>, "ok")),
                 files, 1, <<>>)
    /\ UNCHANGED << fs, params, abi, written, log, uncaught, crashed, interfaceText >>

\* An uncaught exception ends the process, unless the host handles it.
ProcessExit ==
    /\ ~crashed
    /\ uncaught # {}
    /\ crashed' = TRUE
    /\ UNCHANGED << fs, pc, params, huffFiles, idx, abi, contract, error, trace,
                    written, log, uncaught, interfaceText >>

\* The exec callback of huffc --bytecode
BytecodeCallback(c) ==
    /\ ~crashed
    /\ pc[c] = "bytecode"
    /\ \E ok \in BOOLEAN :
        IF ok
        THEN /\ pc' = [pc EXCEPT ![c] = "interface"]
             /\ trace' = [trace EXCEPT ![c] =
                    Append(Finish(@, "ok"), Ev("interface", CurrentFile(c), "running"))]
             /\ written' = [written EXCEPT ![c] = FALSE]
             /\ UNCHANGED << huffFiles, idx, contract, error >>
        ELSE /\ Reject(c, Finish(trace[c], "failed"), CompilerError)
             /\ UNCHANGED written
    /\ UNCHANGED << fs, params, abi, log, uncaught, crashed, interfaceText >>

\* The running huffc --interface writes the interface file.
InterfaceWrite(c) ==
    /\ ~crashed
    /\ pc[c] = "interface"
    /\ ~written[c]
    /\ fs' = WriteFile(fs, InterfaceFileOf(CurrentFile(c)), interfaceText)
    /\ written' = [written EXCEPT ![c] = TRUE]
    /\ UNCHANGED << pc, params, huffFiles, idx, abi, contract, error, trace, log,
                    uncaught, crashed, interfaceText >>

\* The exec callback of huffc --interface; on success deploy goes on with
\* getContractAbi (readFileSync and the scrape) and getContractFactory.
InterfaceCallback(c) ==
    /\ ~crashed
    /\ pc[c] = "interface"
    /\ \E ok \in BOOLEAN :
        IF ok
        THEN /\ written[c]
             /\ LET path == interfaceFilePath(CurrentFile(c))
                    tr == Finish(trace[c], "ok")
                IN  IF path \in DOMAIN fs
                    THEN /\ abi' = [abi EXCEPT ![c] = getContractAbi(fs[path])]
                         /\ pc' = [pc EXCEPT ![c] = "factory"]
                         /\ trace' = [trace EXCEPT ![c] =
                                Append(Append(tr, Ev("read", path, "ok")),
                                       Ev("factory", CurrentFile(c), "running"))]
                         /\ UNCHANGED << huffFiles, idx, contract, error >>
                    ELSE /\ Reject(c, Append(tr, Ev("read", path, "failed")),
                                   ReadError(path))
                         /\ UNCHANGED abi
        ELSE /\ Reject(c, Finish(trace[c], "failed"), CompilerError)
             /\ UNCHANGED abi
    /\ UNCHANGED << fs, params, written, log, uncaught, crashed, interfaceText >>

\* getContractFactory settles; on success factory.deploy() is called.
FactoryCallback(c) ==
    /\ ~crashed
    /\ pc[c] = "factory"
    /\ \E ok \in BOOLEAN :
        IF ok
        THEN /\ pc' = [pc EXCEPT ![c] = "deploying"]
             /\ trace' = [trace EXCEPT ![c] =
                    Append(Finish(@, "ok"), Ev("deploy", CurrentFile(c), "running"))]
             /\ UNCHANGED << huffFiles, idx, contract, error >>
        ELSE Reject(c, Finish(trace[c], "failed"), FactoryError)
    /\ UNCHANGED << fs, params, abi, written, log, uncaught, crashed, interfaceText >>

\* the contract factory.deploy() resolves with
Handle(c) == [file |-> CurrentFile(c), abi |-> abi[c]]

\* factory.deploy() settles.  On failure the catch block rethrows with the
\* target's name.  On success contract is assigned, clean runs unless the
\* interface is to be kept (HuffDeployer.ts only), and the loop goes on.
DeployCallback(c) ==
    /\ ~crashed
    /\ pc[c] = "deploying"
    /\ \E ok \in BOOLEAN :
        IF ok
        THEN LET tr == Finish(trace[c], "ok")
                 path == cleanFilePath(CurrentFile(c))
             IN  IF params[c].impl = "HuffDeployer" /\ ~params[c].generateInterface
                 THEN IF path \in DOMAIN fs
                      THEN /\ fs' = Unlink(fs, path)
                           /\ log' = log
                           /\ AfterDeploy(c, Append(tr, Ev("unlink", path, "ok")),
                                          <<Handle(c)>>)
                      ELSE /\ fs' = fs
                           /\ log' = log \cup {path}
                           /\ AfterDeploy(c, Append(tr, Ev("unlink", path, "failed")),
                                          <<Handle(c)>>)
                 ELSE /\ UNCHANGED << fs, log >>
                      /\ AfterDeploy(c, tr, <<Handle(c)>>)
        ELSE /\ Reject(c, Finish(trace[c], "failed"),
                       DeployError(params[c].targetContract))
             /\ UNCHANGED << fs, log >>
    /\ UNCHANGED << params, abi, written, uncaught, crashed, interfaceText >>

\* ------------------------------------------------------------------------
\* Specifications
\* ------------------------------------------------------------------------

\* the file systems that hold at most MaxFiles sources and nothing else
SourceTrees ==
    { [p \in S |-> HuffSourceText] :
        S \in {T \in SUBSET SourceCatalogue : Cardinality(T) <= MaxFiles} }

NoParams == [targetContract |-> <<>>, impl |-> "helpers", generateInterface |-> TRUE]

CallParams(name, mode) ==
    [ targetContract |-> name, impl |-> mode.impl,
      generateInterface |-> mode.generateInterface ]

InitCommon ==
    /\ huffFiles = [c \in Calls |-> <<>>]
    /\ idx = [c \in Calls |-> 0]
    /\ abi = [c \in Calls |-> <<>>]
    /\ contract = [c \in Calls |-> <<>>]
    /\ error = [c \in Calls |-> <<>>]
    /\ trace = [c \in Calls |-> <<>>]
    /\ written = [c \in Calls |-> FALSE]
    /\ log = {}
    /\ uncaught = {}
    /\ crashed = FALSE

\* One deploy call.
Init ==
    /\ fs \in SourceTrees
    /\ interfaceText = InterfaceText
    /\ pc = [c \in Calls |-> IF c = 1 THEN "ready" ELSE "absent"]
    /\ \E name \in TargetNames, mode \in Modes :
        params = [c \in Calls |-> IF c = 1 THEN CallParams(name, mode) ELSE NoParams]
    /\ InitCommon

Step(c) ==
    \/ ClassDeploy(c)
    \/ SignersCallback(c)
    \/ Call(c)
    \/ VersionCallbackThrows(c)
    \/ VersionCallbackResolves(c)
    \/ BytecodeCallback(c)
    \/ InterfaceWrite(c)
    \/ InterfaceCallback(c)
    \/ FactoryCallback(c)
    \/ DeployCallback(c)

Next ==
    \/ \E c \in Calls : Step(c)
    \/ ProcessExit

Spec == Init /\ [][Next]_vars

\* Two deploy calls for the same contract name, started in the same process
\* over one source file.
InitRace ==
    /\ fs \in { [p \in {src} |-> HuffSourceText] : src \in SourceCatalogue }
    /\ interfaceText = InterfaceText
    /\ pc = [c \in Calls |-> "ready"]
    /\ \E name \in TargetNames, m1 \in Modes, m2 \in Modes :
        params = [c \in Calls |-> CallParams(name, IF c = 1 THEN m1 ELSE m2)]
    /\ InitCommon

SpecRace == InitRace /\ [][Next]_vars

\* ------------------------------------------------------------------------
\* The ABI scrape over many interface texts
\* ------------------------------------------------------------------------

\* the largest number of lines of an interface text
MaxLines == 3

\* Lines an interface text is made of: declarations, with and without
\* leading text, lines without the keyword, a line whose first ';' comes
\* before the keyword, a line without terminator, a line with two.
LineCatalogue ==
    { <<"f", "u", "n", "c", "t", "i", "o", "n", " ", "f", "(", ")", ";">>,
      <<" ", "f", "u", "n", "c", "t", "i", "o", "n", " ", "g", "(", ")", ";">>,
      <<"i", "n", "t", "e", "r", "f", "a", "c", "e", " ", "I", " ", "{">>,
      <<"}">>,
      <<"x", ";", " ", "f", "u", "n", "c", "t", "i", "o", "n", " ", "f", "(", ")", ";">>,
      <<"f", "u", "n", "c", "t", "i", "o", "n", " ", "h", "(", ")">>,
      <<"f", "u", "n", "c", "t", "i", "o", "n", " ", "f", "(", ")", ";", " ", "g", "(", ")", ";">> }

RECURSIVE JoinLines(_)
JoinLines(lines) ==
    IF Len(lines) = 1 THEN lines[1]
    ELSE lines[1] \o <<"\n">> \o JoinLines(Tail(lines))

InterfaceTexts ==
    UNION { { JoinLines(ls) : ls \in [1..n -> LineCatalogue] } : n \in 1..MaxLines }

\* One deploy call of a plain source whose interface text is any of
\* InterfaceTexts.
InitAbi ==
    /\ fs = [p \in {HuffPath(<<>>, <<"A">>)} |-> HuffSourceText]
    /\ interfaceText \in InterfaceTexts
    /\ pc = [c \in Calls |-> IF c = 1 THEN "ready" ELSE "absent"]
    /\ \E mode \in Modes :
        params = [c \in Calls |-> IF c = 1 THEN CallParams(<<"a">>, mode) ELSE NoParams]
    /\ InitCommon

SpecAbi == InitAbi /\ [][Next]_vars

\* ------------------------------------------------------------------------
\* Vocabulary of the properties
\* ------------------------------------------------------------------------

\* the calls that exist
Present == {c \in Calls : pc[c] # "absent"}

\* the file name of a path without its .huff extension
Basename(filePath) ==
    Slice(filePath, LastIndexOf(filePath, slash) + 1, Len(filePath) - Len(dotHuff))

\* the requested name equals the basename, ignoring case
BasenameMatches(targetContract, filePath) ==
    ToLowerCase(targetContract) = ToLowerCase(Basename(filePath))

\* call c has scanned the contracts folder
Scanned(c) == \E i \in DOMAIN trace[c] : trace[c][i].step = "glob"

\* the events of one kind in the trace of call c, in order
EventsOf(c, step) == SelectSeq(trace[c], LAMBDA e : e.step = step)

\* the files of a sequence of events
FilesOf(events) == [i \in DOMAIN events |-> events[i].file]

\* the discovered files the loop of call c selects, in discovery order
Selected(c) ==
    SelectSeq(huffFiles[c], LAMBDA f : NameMatches(params[c].targetContract, f))

\* the steps of the pipeline that are huffc subprocesses
SubprocessSteps == {"version", "bytecode", "interface"}

\* every subprocess call c has started has succeeded
SubprocessesSucceeded(c) ==
    \A i \in DOMAIN trace[c] :
        trace[c][i].step \in SubprocessSteps => trace[c][i].status = "ok"

\* the only ".huff" of the path is its extension
PlainPath(filePath) == IndexOf(filePath, dotHuff) = Len(filePath) - Len(dotHuff)

\* ------------------------------------------------------------------------
\* C1
\* ------------------------------------------------------------------------

\* C1: when no discovered file's basename equals the requested name ignoring
\* case, the call has rejected with the not-found error as soon as the scan
\* is done, and the version check and the scan are the only steps it took.
C1_NotFoundWithoutBasenameMatch ==
    \A c \in Present :
        ( /\ Scanned(c)
          /\ \A i \in DOMAIN huffFiles[c] :
                ~BasenameMatches(params[c].targetContract, huffFiles[c][i]) )
        => /\ pc[c] = "rejected"
           /\ error[c] = <<NotFoundError(params[c].targetContract)>>
           /\ FilesOf(trace[c]) = << <<>>, <<>> >>
           /\ trace[c][1].step = "version"
           /\ trace[c][2].step = "glob"

\* ------------------------------------------------------------------------
\* C2
\* ------------------------------------------------------------------------

\* C2: when the version check has failed, the promise returned by deploy
\* has rejected with a CompilerUnavailable error, nothing was scanned or
\* started after the check, and the file system is as it was.
C2_RejectsWhenCompilerUnavailable ==
    \A c \in Present :
        (\E i \in DOMAIN trace[c] :
            trace[c][i].step = "version" /\ trace[c][i].status = "failed")
        => /\ pc[c] = "rejected"
           /\ error[c] # <<>>
           /\ error[c][1].kind = "CompilerUnavailable"
           /\ Len(trace[c]) = 1
           /\ \A p \in DOMAIN fs : fs[p] = HuffSourceText

\* ------------------------------------------------------------------------
\* C3
\* ------------------------------------------------------------------------

\* event b may come right after event a in the trace of one call
Follows(a, b) ==
    \/ a.step = "version" /\ b.step = "glob"
    \/ a.step = "glob" /\ b.step = "bytecode"
    \/ a.step = "bytecode" /\ b.step = "interface" /\ b.file = a.file
    \/ a.step = "interface" /\ b.step = "read" /\ b.file = interfaceFilePath(a.file)
    \/ a.step = "read" /\ b.step = "factory" /\ a.file = interfaceFilePath(b.file)
    \/ a.step = "factory" /\ b.step = "deploy" /\ b.file = a.file
    \/ a.step = "deploy" /\ b.step \in {"unlink", "bytecode"} /\ b.file # a.file
    \/ a.step = "unlink" /\ b.step = "bytecode"

\* C3: within one call the steps start in the fixed order version check,
\* scan, bytecode, interface, read, factory, deploy; a step starts only when
\* every step before it has completed successfully (the best-effort unlink
\* aside), and at most one step of a call is outstanding at any time.
C3_StepsInOrderOneAtATime ==
    \A c \in Present :
        /\ Cardinality({i \in DOMAIN trace[c] : trace[c][i].status = "running"}) <= 1
        /\ trace[c] # <<>> => trace[c][1].step = "version"
        /\ \A i \in 1..(Len(trace[c]) - 1) :
            /\ Follows(trace[c][i], trace[c][i + 1])
            /\ trace[c][i].status = "ok" \/ trace[c][i].step = "unlink"

\* a call has run the whole pipeline for a file and returned
C3_Witness ==
    \E c \in Present :
        /\ pc[c] = "returned"
        /\ EventsOf(c, "deploy") # <<>>
        /\ EventsOf(c, "read") # <<>>

\* ------------------------------------------------------------------------
\* C4
\* ------------------------------------------------------------------------

\* C4: once a bytecode compile, an interface generation or a deploy call of
\* a call has failed, the call has rejected, the failed step is the last
\* step it ever starts (nothing later, no retry), no handle is returned, and
\* for a failed deploy call the error names the target contract.
C4_FailureAborts ==
    \A c \in Present :
        \A i \in DOMAIN trace[c] :
            ( /\ trace[c][i].step \in {"bytecode", "interface", "deploy"}
              /\ trace[c][i].status = "failed" )
            => /\ pc[c] = "rejected"
               /\ i = Len(trace[c])
               /\ error[c] # <<>>
               /\ trace[c][i].step = "deploy" =>
                    /\ error[c] = <<DeployError(params[c].targetContract)>>
                    /\ Includes(error[c][1].message, params[c].targetContract)
               /\ trace[c][i].step # "deploy" => error[c] = <<CompilerError>>

\* a step failed for a file after which another matching file was discovered
C4_Witness ==
    \E c \in Present :
        /\ pc[c] = "rejected"
        /\ trace[c] # <<>>
        /\ trace[c][Len(trace[c])].step \in {"bytecode", "interface", "deploy"}
        /\ trace[c][Len(trace[c])].status = "failed"
        /\ NextMatch(huffFiles[c], params[c].targetContract, idx[c] + 1) # 0

\* ------------------------------------------------------------------------
\* C5
\* ------------------------------------------------------------------------

\* C5: a call without retention that has returned has, for every file it
\* deployed, deleted the generated interface file (the file it read the ABI
\* from) or logged the failure to delete it; a call with retention has
\* unlinked nothing.
C5_InterfaceFileCleaned ==
    \A c \in Present :
        /\ ( /\ pc[c] = "returned"
             /\ params[c].impl = "HuffDeployer"
             /\ ~params[c].generateInterface )
           => \A i \in DOMAIN trace[c] :
                trace[c][i].step = "read" =>
                    \/ trace[c][i].file \notin DOMAIN fs
                    \/ trace[c][i].file \in log
        /\ params[c].generateInterface => EventsOf(c, "unlink") = <<>>

\* ------------------------------------------------------------------------
\* C6
\* ------------------------------------------------------------------------

\* call c rejected because it could not read the interface file
ReadFailed(c) ==
    /\ pc[c] = "rejected"
    /\ idx[c] \in DOMAIN huffFiles[c]
    /\ trace[c][Len(trace[c])].step = "read"
    /\ trace[c][Len(trace[c])].status = "failed"

\* call d has deleted the file at path
Deleted(d, path) ==
    \E i \in DOMAIN trace[d] : trace[d][i] = Ev("unlink", path, "ok")

\* C6: calls share the interface file unguarded.  When a call whose
\* subprocesses all succeeded fails to read the interface file of a plainly
\* named source, another call has deleted that file after it was generated.
C6_ReadFailsOnlyByRace ==
    \A c \in Present :
        ( /\ ReadFailed(c)
          /\ PlainPath(CurrentFile(c))
          /\ SubprocessesSucceeded(c) )
        => \E d \in Present \ {c} : Deleted(d, trace[c][Len(trace[c])].file)

\* the interleaving: every subprocess of both calls succeeded, d deleted the
\* interface file between its generation by c and the read of c, which failed
C6_Witness ==
    \E c \in Present, d \in Present :
        /\ c # d
        /\ ReadFailed(c)
        /\ SubprocessesSucceeded(c)
        /\ SubprocessesSucceeded(d)
        /\ Deleted(d, trace[c][Len(trace[c])].file)
        /\ trace[c][Len(trace[c])].file = InterfaceFileOf(CurrentFile(c))
        /\ pc[d] = "returned"

\* ------------------------------------------------------------------------
\* C7
\* ------------------------------------------------------------------------

\* C7: when exactly one discovered file's basename equals the requested name
\* ignoring case, the loop selects that file and no other: a compile has
\* started, and every compile of the call is of that file.
C7_SelectsTheSingleMatch ==
    \A c \in Present :
        LET M == {i \in DOMAIN huffFiles[c] :
                    BasenameMatches(params[c].targetContract, huffFiles[c][i])}
        IN  (Scanned(c) /\ Cardinality(M) = 1)
            => /\ EventsOf(c, "bytecode") # <<>>
               /\ \A i \in DOMAIN trace[c] :
                    trace[c][i].step = "bytecode" =>
                        \E m \in M : trace[c][i].file = huffFiles[c][m]

\* ------------------------------------------------------------------------
\* C8
\* ------------------------------------------------------------------------

\* the first terminator of a line after its first keyword, -1 if none
TerminatorAfterKeyword(line) ==
    LET k == IndexOf(line, functionKw)
        rest == IndexOf(SliceFrom(line, k), semicolon)
    IN  IF rest = -1 THEN -1 ELSE k + rest

\* the lines of a text that contain the keyword
KeywordLines(text) ==
    SelectSeq(SplitLines(text), LAMBDA line : Includes(line, functionKw))

\* the text of a line from its keyword up to the terminator after it
KeywordToTerminator(line) ==
    SubSeq(line, IndexOf(line, functionKw) + 1, TerminatorAfterKeyword(line))

\* the scraped ABI of call c has one fragment per keyword line of the
\* interface text, in file order, each from the keyword up to the terminator
OneFragmentPerKeywordLine(c) ==
    /\ Len(abi[c]) = Len(KeywordLines(interfaceText))
    /\ \A i \in DOMAIN abi[c] :
        abi[c][i] = KeywordToTerminator(KeywordLines(interfaceText)[i])

\* call c has scraped the interface text
Scraped(c) == pc[c] \in {"factory", "deploying", "returned"}

\* C8 (amended): when in every line of the interface text that contains the
\* keyword the first ';' of the line comes after the keyword, the scraped ABI
\* has one fragment per such line, in file order, each the text from the
\* keyword up to but excluding that ';'.
C8_FragmentsWhenTerminatorFirst ==
    \A c \in Present :
        ( /\ Scraped(c)
          /\ \A i \in DOMAIN KeywordLines(interfaceText) :
                IndexOf(KeywordLines(interfaceText)[i], semicolon)
                    > IndexOf(KeywordLines(interfaceText)[i], functionKw) )
        => OneFragmentPerKeywordLine(c)

\* a text of three lines, two of them declarations, one with leading text,
\* has been scraped into two fragments
C8_Witness ==
    \E c \in Present :
        /\ Scraped(c)
        /\ Len(SplitLines(interfaceText)) = 3
        /\ Len(KeywordLines(interfaceText)) = 2
        /\ \A i \in 1..2 :
            IndexOf(KeywordLines(interfaceText)[i], semicolon)
                > IndexOf(KeywordLines(interfaceText)[i], functionKw)
        /\ \E i \in 1..2 : IndexOf(KeywordLines(interfaceText)[i], functionKw) > 0
        /\ Len(abi[c]) = 2

\* C8 (as claimed): when every line of the interface text that contains the
\* keyword has a terminator after it, the scraped ABI has one fragment per
\* such line, in file order, each the text from the keyword up to the
\* terminator.
C8_OneFragmentPerKeywordLine ==
    \A c \in Present :
        ( /\ Scraped(c)
          /\ \A i \in DOMAIN KeywordLines(interfaceText) :
                TerminatorAfterKeyword(KeywordLines(interfaceText)[i]) # -1 )
        => OneFragmentPerKeywordLine(c)

\* ------------------------------------------------------------------------
\* C9
\* ------------------------------------------------------------------------

\* C9: a call that has returned has run the pipeline once for every
\* discovered file its name match selects, in discovery order, and returns
\* the contract deployed from the last of them.
C9_LastMatchWins ==
    \A c \in Present :
        pc[c] = "returned"
        => /\ Selected(c) # <<>>
           /\ FilesOf(EventsOf(c, "bytecode")) = Selected(c)
           /\ FilesOf(EventsOf(c, "interface")) = Selected(c)
           /\ FilesOf(EventsOf(c, "read")) =
                 [i \in DOMAIN Selected(c) |-> interfaceFilePath(Selected(c)[i])]
           /\ FilesOf(EventsOf(c, "factory")) = Selected(c)
           /\ FilesOf(EventsOf(c, "deploy")) = Selected(c)
           /\ \A i \in DOMAIN trace[c] :
                trace[c][i].step # "unlink" => trace[c][i].status = "ok"
           /\ Len(contract[c]) = 1
           /\ contract[c][1].file = Selected(c)[Len(Selected(c))]

\* a call returned after deploying from two matching files
C9_Witness ==
    \E c \in Present :
        /\ pc[c] = "returned"
        /\ Len(Selected(c)) >= 2
        /\ Len(EventsOf(c, "deploy")) >= 2

\* ------------------------------------------------------------------------
\* C10
\* ------------------------------------------------------------------------

\* C10: the path clean unlinks after a deploy is the path getContractAbi read
\* for that file, and it is the interface file of the deployed source.
C10_CleanDeletesWhatWasRead ==
    \A c \in Present :
        \A i \in DOMAIN trace[c] :
            trace[c][i].step = "unlink"
            => /\ trace[c][i].file = trace[c][i - 3].file
               /\ trace[c][i - 3].step = "read"
               /\ trace[c][i].file = InterfaceFileOf(trace[c][i - 1].file)

====
